---- MODULE Spec2Model ----
(***************************************************************************)
(* The three batch scripts of src/Tool as one state machine:               *)
(*   FE  FixExtension.py         correct_files_and_update_json             *)
(*   FI  FixIndexAndAddTime.py   rename_files_and_update_json + __main__   *)
(*   CV  convert.py              convert_and_rename_files                  *)
(* A step is one loop iteration of a script (entering a record, handling   *)
(* one element, answering one prompt) or its final write.  The media       *)
(* directory is a function from the names of the files that exist to the   *)
(* content kind of each file.  A filename is kept in the form os.path.     *)
(* splitext gives it, <<root, extension>>.                                 *)
(***************************************************************************)
EXTENDS Integers, Sequences, FiniteSets, TLC

VARIABLES
  script,            \* which script this process runs: "FE", "FI" or "CV"
  pass,              \* 1 for the first invocation, 2 for a second one right after it
  pc,                \* position of the process
  dirExists,         \* the media directory exists
  fs,                \* media directory: existing filename |-> content kind
  jsonFile,          \* the input document on storage: [st, doc]
  outFile,           \* the output document on storage (FI, CV): [st, doc]
  mapFile,           \* channel_mapping.json on storage (CV): [st, map]
  data,              \* the loaded document (cave_data / data)
  ci,                \* index of the record being processed
  ei,                \* index of the element being processed
  media_index,       \* media_index (FI) / media_index_counter (CV)
  total_corrected,   \* total_corrected (FE) / total_renamed (FI)
  total_skipped,     \* total_skipped
  user_channel_map,  \* CV: userId |-> channelId
  output_data,       \* CV: converted records
  new_elements,      \* CV: elements of the record being converted
  log,               \* the console trace: one entry per decision printed
  docWrites,         \* number of document writes of this invocation
  fs0,               \* media directory when this invocation started
  json0,             \* input document when this invocation started
  out0,              \* output document when this invocation started
  dir0,              \* whether the media directory existed when it started
  map0               \* mapping file when this invocation started

vars == <<script, pass, pc, dirExists, fs, jsonFile, outFile, mapFile, data, ci, ei,
          media_index, total_corrected, total_skipped, user_channel_map,
          output_data, new_elements, log, docWrites, fs0, json0, out0, dir0, map0>>

(***************************************************************************)
(* Bounds of the model.                                                    *)
(***************************************************************************)
\* records per document
MaxCaves == 2
\* elements per document, over all its records
MaxElems == 3

(***************************************************************************)
(* Python values.                                                          *)
(***************************************************************************)
\* `key in d`
Has(d, key) == key \in DOMAIN d

\* d.get(key, default)
Get(d, key, default) == IF key \in DOMAIN d THEN d[key] ELSE default

\* os.path.splitext(filename): a filename is held as <<root, extension>>
splitext(filename) == [root |-> filename[1], ext |-> filename[2]]

\* f"{root}{extension}"
JoinName(root, extension) == <<root, extension>>

\* str.lower() on the extensions that occur
Lower(ext) ==
  CASE ext = ".PNG" -> ".png"
    [] ext = ".JPG" -> ".jpg"
    [] OTHER -> ext

\* os.path.exists(os.path.join(base_dir, filename))
Exists(files, filename) == filename \in DOMAIN files

\* os.rename(old_path, new_path) when it succeeds: the target is replaced
Rename(files, old, new) ==
  [n \in (DOMAIN files \ {old}) \cup {new} |-> IF n = new THEN files[old] ELSE files[n]]

\* what os.rename can do: succeed, or raise OSError
RenameOutcomes == {TRUE, FALSE}

(***************************************************************************)
(* FixIndexAndAddTime.py: convert_iso_to_ms_timestamp.                     *)
(* An ISO-8601 string is held parsed: [Y, M, D, h, mi, s, tz], whole       *)
(* seconds, tz one of "Z", "" (naive) or an offset.  The result is the     *)
(* decimal text of the millisecond timestamp, which is all the caller      *)
(* formats (the value itself exceeds TLC's integers).                      *)
(***************************************************************************)
DaysFromCivil(Y, M, D) ==
  LET y   == IF M <= 2 THEN Y - 1 ELSE Y
      era == y \div 400
      yoe == y - era * 400
      mp  == IF M > 2 THEN M - 3 ELSE M + 9
      doy == (153 * mp + 2) \div 5 + D - 1
      doe == yoe * 365 + yoe \div 4 - yoe \div 100 + doy
  IN  era * 146097 + doe - 719468

TzOffsetMinutes(tz) ==
  CASE tz = "+00:00" -> 0
    [] tz = "+08:00" -> 480
    [] OTHER -> 0

convert_iso_to_ms_timestamp(iso) ==
  LET tz1 == IF iso.tz = "Z" THEN "+00:00" ELSE iso.tz
      tz2 == IF tz1 = "" THEN "+00:00" ELSE tz1
      sec == DaysFromCivil(iso.Y, iso.M, iso.D) * 86400
               + iso.h * 3600 + iso.mi * 60 + iso.s - TzOffsetMinutes(tz2) * 60
  IN  IF sec = 0 THEN "0" ELSE ToString(sec) \o "000"

(***************************************************************************)
(* The console trace.                                                      *)
(***************************************************************************)
NoName == <<"", "">>

LogEntry(src, rec, el, mark, old, new, files, files2) ==
  [src |-> src, rec |-> rec, el |-> el, mark |-> mark, old |-> old, new |-> new,
   touched |-> files2 # files]

SkipMarks == {"missing", "undetectable", "rename-error"}

(***************************************************************************)
(* FixIndexAndAddTime.py                                                   *)
(***************************************************************************)
MediaTypesFI == {"image", "video", "audio", "file", "gif"}

\* line 65
IsMediaElementFI(element) ==
  Has(element, "file") /\ Get(element, "type", "none") \in MediaTypesFI

\* a variant of NewFilenameFI: the separators of convert.py's scheme
NewFilenameFI_Underscores(cave_id, index, channel_id, user_id, timestamp_ms, extension) ==
  JoinName(ToString(cave_id) \o "_" \o ToString(index) \o "_" \o channel_id
             \o "_" \o user_id \o "_" \o timestamp_ms, extension)

\* line 72
NewFilenameFI(cave_id, index, channel_id, user_id, timestamp_ms, extension) ==
  JoinName(ToString(cave_id) \o "-" \o ToString(index) \o "_" \o channel_id
             \o "-" \o user_id \o "_" \o timestamp_ms, extension)

\* lines 52, 55: cave['id'] and cave['time'] raise KeyError when absent
RaisesKeyErrorFI(cave) == ~Has(cave, "id") \/ ~Has(cave, "time")

\* line 122: `if updated_data:`
ShouldWriteFI(updated_data) == Len(updated_data) > 0

\* a variant of AllProcessed: the loop stops one record early
AllProcessed_OffByOne(index, doc) == index >= Len(doc)

\* `for cave in data:` has run out of records
AllProcessed(index, doc) == index > Len(doc)

SetFile(doc, c, e, filename) ==
  [doc EXCEPT ![c] = [@ EXCEPT !.elements = [@ EXCEPT ![e] = [@ EXCEPT !.file = filename]]]]

Elements(cave) == Get(cave, "elements", <<>>)

FI_Main ==
  /\ script = "FI" /\ pc = "start"
  /\ IF jsonFile.st = "missing" \/ ~dirExists
       THEN pc' = "aborted" /\ UNCHANGED <<data, ci>>
       ELSE IF jsonFile.st = "invalid"
         THEN pc' = "crashed" /\ UNCHANGED <<data, ci>>
         ELSE data' = jsonFile.doc /\ ci' = 1 /\ pc' = "cave"
  /\ UNCHANGED <<script, pass, dirExists, fs, jsonFile, outFile, mapFile, ei,
                 media_index, total_corrected, total_skipped, user_channel_map,
                 output_data, new_elements, log, docWrites, fs0, json0, out0, dir0, map0>>

FI_Cave ==
  /\ script = "FI" /\ pc = "cave"
  /\ IF AllProcessed(ci, data)
       THEN pc' = "write" /\ UNCHANGED <<ci, ei, media_index, log>>
       ELSE IF RaisesKeyErrorFI(data[ci])
         THEN /\ log' = Append(log, LogEntry(ci, ci, 0, "malformed", NoName, NoName, fs, fs))
              /\ ci' = ci + 1
              /\ UNCHANGED <<pc, ei, media_index>>
         ELSE IF Len(Elements(data[ci])) = 0
           THEN ci' = ci + 1 /\ media_index' = 0 /\ UNCHANGED <<pc, ei, log>>
           ELSE pc' = "elem" /\ ei' = 1 /\ media_index' = 0 /\ UNCHANGED <<ci, log>>
  /\ UNCHANGED <<script, pass, dirExists, fs, jsonFile, outFile, mapFile, data,
                 total_corrected, total_skipped, user_channel_map,
                 output_data, new_elements, docWrites, fs0, json0, out0, dir0, map0>>

\* after element ei of record ci: the next element, or the next record
NextElement ==
  IF ei = Len(Elements(data[ci]))
    THEN ci' = ci + 1 /\ ei' = 0 /\ pc' = "cave"
    ELSE ci' = ci /\ ei' = ei + 1 /\ pc' = pc

FI_Element ==
  /\ script = "FI" /\ pc = "elem"
  /\ LET cave         == data[ci]
         element      == Elements(cave)[ei]
         channel_id   == Get(cave, "channelId", "unknown")
         user_id      == Get(cave, "userId", "unknown")
         timestamp_ms == convert_iso_to_ms_timestamp(cave.time)
     IN IF ~IsMediaElementFI(element)
          THEN /\ NextElement
               /\ UNCHANGED <<fs, data, media_index, total_corrected, total_skipped, log>>
          ELSE LET index        == media_index + 1
                   old_filename == element.file
                   new_filename == NewFilenameFI(cave.id, index, channel_id, user_id,
                                     timestamp_ms, splitext(old_filename).ext)
               IN /\ media_index' = index
                  /\ IF Exists(fs, old_filename)
                       THEN \E ok \in RenameOutcomes :
                              IF ok
                                THEN /\ fs' = Rename(fs, old_filename, new_filename)
                                     /\ data' = SetFile(data, ci, ei, new_filename)
                                     /\ total_corrected' = total_corrected + 1
                                     /\ log' = Append(log, LogEntry(ci, ci, ei, "corrected",
                                                 old_filename, new_filename, fs, fs'))
                                     /\ NextElement
                                     /\ UNCHANGED total_skipped
                                ELSE \* OSError: caught by the record's handler, line 96
                                     /\ log' = Append(log, LogEntry(ci, ci, ei, "rename-error",
                                                 old_filename, new_filename, fs, fs))
                                     /\ ci' = ci + 1 /\ ei' = 0 /\ pc' = "cave"
                                     /\ UNCHANGED <<fs, data, total_corrected, total_skipped>>
                       ELSE /\ total_skipped' = total_skipped + 1
                            /\ log' = Append(log, LogEntry(ci, ci, ei, "missing",
                                        old_filename, new_filename, fs, fs))
                            /\ NextElement
                            /\ UNCHANGED <<fs, data, total_corrected>>
  /\ UNCHANGED <<script, pass, dirExists, jsonFile, outFile, mapFile,
                 user_channel_map, output_data, new_elements, docWrites,
                 fs0, json0, out0, dir0, map0>>

FI_Write ==
  /\ script = "FI" /\ pc = "write"
  /\ IF ShouldWriteFI(data)
       THEN outFile' = [st |-> "ok", doc |-> data] /\ docWrites' = docWrites + 1
       ELSE UNCHANGED <<outFile, docWrites>>
  /\ pc' = "done"
  /\ UNCHANGED <<script, pass, dirExists, fs, jsonFile, mapFile, data, ci, ei,
                 media_index, total_corrected, total_skipped, user_channel_map,
                 output_data, new_elements, log, fs0, json0, out0, dir0, map0>>

(***************************************************************************)
(* FixExtension.py                                                         *)
(***************************************************************************)
\* filetype.guess(path): the kind of the file's content, "?" when it is None
filetype_guess(files, filename) == files[filename]

\* line 70: f".{kind.extension}"
CorrectExtension(kind) == "." \o kind

\* line 76
ExtensionIsWrong(current_extension, correct_extension) ==
  Lower(current_extension) # Lower(correct_extension)

\* a variant of ShouldWriteFE: the write is not conditional
ShouldWriteFE_Always(corrected) == corrected >= 0

\* line 97
ShouldWriteFE(corrected) == corrected > 0

\* a variant of AbortsFE: the directory check of lines 23-25 is missing
AbortsFE_NoDirCheck(file, dir) == file.st = "missing" \/ file.st = "invalid"

\* lines 19-34: a missing path or an unparsable document ends the run
AbortsFE(file, dir) == file.st = "missing" \/ ~dir \/ file.st = "invalid"

FE_Start ==
  /\ script = "FE" /\ pc = "start"
  /\ IF AbortsFE(jsonFile, dirExists)
       THEN pc' = "aborted" /\ UNCHANGED <<data, ci>>
       ELSE data' = jsonFile.doc /\ ci' = 1 /\ pc' = "cave"
  /\ UNCHANGED <<script, pass, dirExists, fs, jsonFile, outFile, mapFile, ei,
                 media_index, total_corrected, total_skipped, user_channel_map,
                 output_data, new_elements, log, docWrites, fs0, json0, out0, dir0, map0>>

FE_Cave ==
  /\ script = "FE" /\ pc = "cave"
  /\ IF AllProcessed(ci, data)
       THEN pc' = "write" /\ UNCHANGED <<ci, ei>>
       ELSE IF Len(Elements(data[ci])) = 0
         THEN ci' = ci + 1 /\ UNCHANGED <<pc, ei>>
         ELSE pc' = "elem" /\ ei' = 1 /\ UNCHANGED ci
  /\ UNCHANGED <<script, pass, dirExists, fs, jsonFile, outFile, mapFile, data,
                 media_index, total_corrected, total_skipped, user_channel_map,
                 output_data, new_elements, log, docWrites, fs0, json0, out0, dir0, map0>>

FE_Element ==
  /\ script = "FE" /\ pc = "elem"
  /\ LET element == Elements(data[ci])[ei]
     IN IF ~Has(element, "file")
          THEN UNCHANGED <<fs, data, total_corrected, total_skipped, log>>
          ELSE LET original_filename == element.file
               IN IF ~Exists(fs, original_filename)
                    THEN /\ total_skipped' = total_skipped + 1
                         /\ log' = Append(log, LogEntry(ci, ci, ei, "missing",
                                     original_filename, original_filename, fs, fs))
                         /\ UNCHANGED <<fs, data, total_corrected>>
                    ELSE LET kind == filetype_guess(fs, original_filename)
                         IN IF kind = "?"
                              THEN /\ total_skipped' = total_skipped + 1
                                   /\ log' = Append(log, LogEntry(ci, ci, ei, "undetectable",
                                               original_filename, original_filename, fs, fs))
                                   /\ UNCHANGED <<fs, data, total_corrected>>
                              ELSE LET correct_extension == CorrectExtension(kind)
                                       parts == splitext(original_filename)
                                       new_filename == JoinName(parts.root, correct_extension)
                                   IN IF ExtensionIsWrong(parts.ext, correct_extension)
                                        THEN \E ok \in RenameOutcomes :
                                               IF ok
                                                 THEN /\ fs' = Rename(fs, original_filename, new_filename)
                                                      /\ data' = SetFile(data, ci, ei, new_filename)
                                                      /\ total_corrected' = total_corrected + 1
                                                      /\ log' = Append(log, LogEntry(ci, ci, ei, "corrected",
                                                                  original_filename, new_filename, fs, fs'))
                                                      /\ UNCHANGED total_skipped
                                                 ELSE \* OSError: caught at line 92
                                                      /\ total_skipped' = total_skipped + 1
                                                      /\ log' = Append(log, LogEntry(ci, ci, ei, "rename-error",
                                                                  original_filename, new_filename, fs, fs))
                                                      /\ UNCHANGED <<fs, data, total_corrected>>
                                        ELSE /\ log' = Append(log, LogEntry(ci, ci, ei, "unchanged",
                                                         original_filename, original_filename, fs, fs))
                                             /\ UNCHANGED <<fs, data, total_corrected, total_skipped>>
  /\ NextElement
  /\ UNCHANGED <<script, pass, dirExists, jsonFile, outFile, mapFile, media_index,
                 user_channel_map, output_data, new_elements, docWrites,
                 fs0, json0, out0, dir0, map0>>

FE_Write ==
  /\ script = "FE" /\ pc = "write"
  /\ IF ShouldWriteFE(total_corrected)
       THEN jsonFile' = [st |-> "ok", doc |-> data] /\ docWrites' = docWrites + 1
       ELSE UNCHANGED <<jsonFile, docWrites>>
  /\ pc' = "done"
  /\ UNCHANGED <<script, pass, dirExists, fs, outFile, mapFile, data, ci, ei,
                 media_index, total_corrected, total_skipped, user_channel_map,
                 output_data, new_elements, log, fs0, json0, out0, dir0, map0>>

(***************************************************************************)
(* convert.py                                                              *)
(***************************************************************************)
MediaTypesCV == {"image", "video"}

EmptyMap == [u \in {} |-> ""]

\* line 91
NewFilenameCV(cave_id, index, channel_id, user_id, extension) ==
  JoinName(ToString(cave_id) \o "_" \o ToString(index) \o "_" \o channel_id
             \o "_" \o user_id, extension)

\* line 57: `not all([cave_id, user_id])`, with item.get() giving None when absent
LacksIdsCV(item) ==
  \/ ~Has(item, "cave_id") \/ ~Has(item, "contributor_number")
  \/ item.cave_id = 0 \/ item.contributor_number = ""

\* a variant of NeedsPrompt: every record is prompted for
NeedsPrompt_Always(user_id, mapping) == TRUE

\* line 62
NeedsPrompt(user_id, mapping) == user_id \notin DOMAIN mapping

\* lines 29-36: the mapping file, or {} when it is absent or not JSON
LoadMapping(file) == IF file.st = "ok" THEN file.map ELSE EmptyMap

\* what input() can return at the prompt
PromptAnswers == {"", "c1", "c2"}

\* lines 115-123
NewItem(elements, channel_id, item) ==
  [elements |-> elements, channelId |-> channel_id,
   userId |-> item.contributor_number,
   userName |-> Get(item, "contributor_name", "Unknown"),
   status |-> "active", time |-> "now"]

\* lines 74-79 and, for a record without elements, 115-123
BeginElementsCV(mapping) ==
  LET item == data[ci]
  IN IF Len(Elements(item)) = 0
       THEN /\ output_data' = Append(output_data,
                                NewItem(<<>>, mapping[item.contributor_number], item))
            /\ ci' = ci + 1 /\ pc' = "item"
            /\ UNCHANGED <<ei, media_index, new_elements>>
       ELSE /\ pc' = "elem" /\ ei' = 1 /\ media_index' = 1 /\ new_elements' = <<>>
            /\ UNCHANGED <<ci, output_data>>

CV_Start ==
  /\ script = "CV" /\ pc = "start"
  /\ dirExists' = TRUE
  /\ user_channel_map' = LoadMapping(mapFile)
  /\ IF jsonFile.st # "ok"
       THEN pc' = "aborted" /\ UNCHANGED <<data, ci>>
       ELSE data' = jsonFile.doc /\ ci' = 1 /\ pc' = "item"
  /\ UNCHANGED <<script, pass, fs, jsonFile, outFile, mapFile, ei, media_index,
                 total_corrected, total_skipped, output_data, new_elements, log,
                 docWrites, fs0, json0, out0, dir0, map0>>

CV_Item ==
  /\ script = "CV" /\ pc = "item"
  /\ IF AllProcessed(ci, data)
       THEN pc' = "save" /\ UNCHANGED <<ci, ei, media_index, new_elements, output_data, log>>
       ELSE IF LacksIdsCV(data[ci])
         THEN /\ log' = Append(log, LogEntry(ci, ci, 0, "malformed", NoName, NoName, fs, fs))
              /\ ci' = ci + 1
              /\ UNCHANGED <<pc, ei, media_index, new_elements, output_data>>
         ELSE IF NeedsPrompt(data[ci].contributor_number, user_channel_map)
           THEN /\ pc' = "prompt"
                /\ log' = Append(log, LogEntry(ci, ci, 0, "prompt", NoName, NoName, fs, fs))
                /\ UNCHANGED <<ci, ei, media_index, new_elements, output_data>>
           ELSE BeginElementsCV(user_channel_map) /\ UNCHANGED log
  /\ UNCHANGED <<script, pass, dirExists, fs, jsonFile, outFile, mapFile, data,
                 total_corrected, total_skipped, user_channel_map, docWrites,
                 fs0, json0, out0, dir0, map0>>

\* lines 65-69: an answer at the prompt; an empty one asks again
CV_Prompt ==
  /\ script = "CV" /\ pc = "prompt"
  /\ \E channel_id \in PromptAnswers :
       IF channel_id = ""
         THEN UNCHANGED <<pc, ci, ei, media_index, new_elements, output_data,
                          user_channel_map>>
         ELSE LET mapping == (data[ci].contributor_number :> channel_id) @@ user_channel_map
              IN user_channel_map' = mapping /\ BeginElementsCV(mapping)
  /\ UNCHANGED <<script, pass, dirExists, fs, jsonFile, outFile, mapFile, data,
                 total_corrected, total_skipped, log, docWrites, fs0, json0, out0, dir0, map0>>

\* a variant of InterruptTarget: the KeyboardInterrupt is not caught
InterruptTarget_Crash == "crashed"

\* lines 70-72: `except KeyboardInterrupt: break` leads to the writes of lines 125-132
InterruptTarget == "save"

\* lines 70-72: KeyboardInterrupt at the prompt
CV_Interrupt ==
  /\ script = "CV" /\ pc = "prompt"
  /\ pc' = InterruptTarget
  /\ log' = Append(log, LogEntry(ci, ci, 0, "interrupted", NoName, NoName, fs, fs))
  /\ UNCHANGED <<script, pass, dirExists, fs, jsonFile, outFile, mapFile, data, ci, ei,
                 media_index, total_corrected, total_skipped, user_channel_map,
                 output_data, new_elements, docWrites, fs0, json0, out0, dir0, map0>>

CV_Element ==
  /\ script = "CV" /\ pc = "elem"
  /\ LET item       == data[ci]
         element    == Elements(item)[ei]
         user_id    == item.contributor_number
         channel_id == user_channel_map[user_id]
         rec        == Len(output_data) + 1
         \* lines 112-123: append, and after the last element emit the record
         Emit(new_element) ==
           IF ei = Len(Elements(item))
             THEN /\ output_data' = Append(output_data,
                         NewItem(Append(new_elements, new_element), channel_id, item))
                  /\ ci' = ci + 1 /\ ei' = 0 /\ pc' = "item"
                  /\ new_elements' = <<>>
             ELSE /\ new_elements' = Append(new_elements, new_element)
                  /\ ei' = ei + 1
                  /\ UNCHANGED <<ci, pc, output_data>>
     IN IF Get(element, "type", "none") \in MediaTypesCV /\ Has(element, "file")
             /\ element.file # NoName
          THEN LET original_filename == element.file
                   new_filename == NewFilenameCV(item.cave_id, media_index, channel_id,
                                      user_id, splitext(original_filename).ext)
                   new_element == [element EXCEPT !.file = new_filename]
               IN /\ IF Exists(fs, original_filename)
                       THEN \E ok \in RenameOutcomes :
                              IF ok
                                THEN /\ fs' = Rename(fs, original_filename, new_filename)
                                     /\ log' = Append(log, LogEntry(ci, rec, ei, "corrected",
                                                 original_filename, new_filename, fs, fs'))
                                ELSE \* OSError: caught at line 105
                                     /\ log' = Append(log, LogEntry(ci, rec, ei, "rename-error",
                                                 original_filename, new_filename, fs, fs))
                                     /\ UNCHANGED fs
                       ELSE /\ log' = Append(log, LogEntry(ci, rec, ei, "missing",
                                        original_filename, new_filename, fs, fs))
                            /\ UNCHANGED fs
                  /\ media_index' = media_index + 1
                  /\ Emit(new_element)
          ELSE Emit(element) /\ UNCHANGED <<fs, log, media_index>>
  /\ UNCHANGED <<script, pass, dirExists, jsonFile, outFile, mapFile, data,
                 total_corrected, total_skipped, user_channel_map, docWrites,
                 fs0, json0, out0, dir0, map0>>

\* lines 125-132
CV_Save ==
  /\ script = "CV" /\ pc = "save"
  /\ mapFile' = [st |-> "ok", map |-> user_channel_map]
  /\ outFile' = [st |-> "ok", doc |-> output_data]
  /\ docWrites' = docWrites + 1
  /\ pc' = "done"
  /\ UNCHANGED <<script, pass, dirExists, fs, jsonFile, data, ci, ei, media_index,
                 total_corrected, total_skipped, user_channel_map, output_data,
                 new_elements, log, fs0, json0, out0, dir0, map0>>

(***************************************************************************)
(* The process and its environment.                                        *)
(***************************************************************************)
\* the process is stopped from outside (an uncaught KeyboardInterrupt, a kill)
Kill ==
  /\ pc \in {"cave", "elem", "write", "item", "save"}
  /\ pc' = "killed"
  /\ UNCHANGED <<script, pass, dirExists, fs, jsonFile, outFile, mapFile, data, ci, ei,
                 media_index, total_corrected, total_skipped, user_channel_map,
                 output_data, new_elements, log, docWrites, fs0, json0, out0, dir0, map0>>

HasMark(lg, mark) == \E i \in 1..Len(lg) : lg[i].mark = mark

\* the same FE or FI script is invoked again right after a completed run in
\* which no rename failed
Rerun ==
  /\ script \in {"FE", "FI"} /\ pc = "done" /\ pass = 1
  /\ ~HasMark(log, "rename-error")
  /\ pass' = 2 /\ pc' = "start"
  /\ data' = <<>> /\ ci' = 0 /\ ei' = 0 /\ media_index' = 0
  /\ total_corrected' = 0 /\ total_skipped' = 0 /\ log' = <<>> /\ docWrites' = 0
  /\ fs0' = fs /\ json0' = jsonFile /\ out0' = outFile
  /\ dir0' = dirExists /\ map0' = mapFile
  /\ UNCHANGED <<script, dirExists, fs, jsonFile, outFile, mapFile,
                 user_channel_map, output_data, new_elements>>

(***************************************************************************)
(* Initial states: the documents, directories and mapping files the        *)
(* scripts are started on.                                                 *)
(***************************************************************************)
RECURSIVE SumSeq(_)
SumSeq(s) == IF s = <<>> THEN 0 ELSE Head(s) + SumSeq(Tail(s))

\* how many elements each record holds
SizeVectors ==
  {sz \in UNION {[1..m -> 0..MaxElems] : m \in 0..MaxCaves} : SumSeq(sz) <= MaxElems}

\* the element lists of the records of a document, drawn from pool
Shapes(pool) ==
  UNION {{[i \in 1..Len(sz) |->
             SubSeq(s, SumSeq(SubSeq(sz, 1, i - 1)) + 1, SumSeq(SubSeq(sz, 1, i)))]
           : s \in [1..SumSeq(sz) -> pool]} : sz \in SizeVectors}

Drop(d, key) == [k \in DOMAIN d \ {key} |-> d[k]]

\* which record, if any, lacks a key: the keys are dropped in turn
Defects(n, keys) ==
  {<<0, "">>} \cup {<<c, keys[((c - 1) % Len(keys)) + 1]>> : c \in 1..(IF keys = <<>> THEN 0 ELSE n)}

CaveId(i) == IF i = 1 THEN 5 ELSE IF i = 2 THEN 42 ELSE 100 + i

TimeOf(i) ==
  IF i % 2 = 1
    THEN [Y |-> 2023, M |-> 1, D |-> 1, h |-> 0, mi |-> 0, s |-> 0, tz |-> "Z"]
    ELSE [Y |-> 2024, M |-> 2, D |-> 29, h |-> 12, mi |-> 30, s |-> 15, tz |-> "+08:00"]

FileA == <<"a", ".jpg">>
FileAUpper == <<"a", ".PNG">>
\* the name FI gives the first file of the first record
FileCanon == <<"5-1_c1-u1_1672531200000", ".jpg">>

TextElement == [type |-> "text", content |-> "hi"]
ImageElement(filename) == [type |-> "image", file |-> filename]

OkFile(doc) == [st |-> "ok", doc |-> doc]
NoFile(st) == [st |-> st, doc |-> <<>>]
NoMapFile(st) == [st |-> st, map |-> EmptyMap]
EmptyDir == [n \in {} |-> ""]

FileSystems(names, kinds) == UNION {[S -> kinds] : S \in SUBSET names}

\* the documents FE and FI read
CaveDocs(pool, keys) ==
  UNION {{[i \in 1..Len(sh) |->
             LET cave == [id |-> CaveId(i), channelId |-> "c1", userId |-> "u1",
                          time |-> TimeOf(i), elements |-> sh[i]]
             IN IF d[1] = i THEN Drop(cave, d[2]) ELSE cave]
           : d \in Defects(Len(sh), keys)} : sh \in Shapes(pool)}

DocsFI == CaveDocs({TextElement, ImageElement(FileA), ImageElement(FileCanon)}, <<"id", "time">>)
DocsFE == CaveDocs({TextElement, ImageElement(FileA), ImageElement(FileAUpper)}, <<>>)

\* the documents CV reads
DocsCV ==
  UNION {{[i \in 1..Len(sh) |->
             LET item == [cave_id |-> CaveId(i),
                          contributor_number |-> IF i = 2 /\ two THEN "u2" ELSE "u1",
                          contributor_name |-> "n", elements |-> sh[i]]
             IN IF d[1] = i THEN Drop(item, d[2]) ELSE item]
           : d \in Defects(Len(sh), <<"contributor_number", "cave_id">>), two \in BOOLEAN}
         : sh \in Shapes({TextElement, ImageElement(FileA)})}

InitLocals ==
  /\ pass = 1 /\ pc = "start"
  /\ data = <<>> /\ ci = 0 /\ ei = 0 /\ media_index = 0
  /\ total_corrected = 0 /\ total_skipped = 0
  /\ user_channel_map = EmptyMap /\ output_data = <<>> /\ new_elements = <<>>
  /\ log = <<>> /\ docWrites = 0
  /\ fs0 = fs /\ json0 = jsonFile /\ out0 = outFile
  /\ dir0 = dirExists /\ map0 = mapFile

\* the input document and the media directory: both there, or one of them not
InitStorage(docs, filesystems) ==
  \/ /\ jsonFile \in {OkFile(d) : d \in docs}
     /\ dirExists = TRUE /\ fs \in filesystems
  \/ /\ jsonFile \in {OkFile(d) : d \in docs}
     /\ dirExists = FALSE /\ fs = EmptyDir
  \/ /\ jsonFile \in {NoFile("missing"), NoFile("invalid")}
     /\ dirExists = TRUE /\ fs \in filesystems
  \/ /\ jsonFile \in {NoFile("missing"), NoFile("invalid")}
     /\ dirExists = FALSE /\ fs = EmptyDir

Init ==
  /\ script \in {"FE", "FI", "CV"}
  /\ outFile = NoFile("missing")
  /\ CASE script = "FI" ->
            /\ InitStorage(DocsFI, FileSystems({FileA, FileCanon}, {"jpg"}))
            /\ mapFile = NoMapFile("missing")
       [] script = "FE" ->
            /\ InitStorage(DocsFE, FileSystems({FileA, FileAUpper}, {"png", "?"}))
            /\ mapFile = NoMapFile("missing")
       [] script = "CV" ->
            /\ InitStorage(DocsCV, FileSystems({FileA}, {"jpg"}))
            /\ mapFile \in {NoMapFile("missing"), NoMapFile("invalid"),
                            [st |-> "ok", map |-> ("u1" :> "c1")]}
  /\ InitLocals

Next ==
  \/ FI_Main \/ FI_Cave \/ FI_Element \/ FI_Write
  \/ FE_Start \/ FE_Cave \/ FE_Element \/ FE_Write
  \/ CV_Start \/ CV_Item \/ CV_Prompt \/ CV_Interrupt \/ CV_Element \/ CV_Save
  \/ Kill \/ Rerun

Spec == Init /\ [][Next]_vars

(***************************************************************************)
(* Properties.                                                             *)
(***************************************************************************)
LogIndex == 1..Len(log)

\* the document a run hands to json.dump
FinalDoc == IF script = "CV" THEN output_data ELSE data

\* C1: when an FE or FI run ends, every attachment the run renamed to a new
\* filename (reported as corrected) has a file under its new filename, none
\* under its old filename, and its filename field is the new filename.
C1_CorrectedFilesConsistent ==
  (script \in {"FE", "FI"} /\ pc = "done") =>
    \A i \in LogIndex :
      (log[i].mark = "corrected" /\ log[i].new # log[i].old) =>
        /\ Exists(fs, log[i].new)
        /\ ~Exists(fs, log[i].old)
        /\ data[log[i].rec].elements[log[i].el].file = log[i].new

\* C2: when a run ends, every attachment it skipped (file missing, type
\* undetectable, rename failed) keeps the filename it had before the run in the
\* document the run produces, and the step that skipped it left the media
\* directory alone.
C2_SkippedUntouched ==
  pc = "done" =>
    \A i \in LogIndex :
      log[i].mark \in SkipMarks =>
        /\ ~log[i].touched
        /\ FinalDoc[log[i].rec].elements[log[i].el].file = log[i].old

\* C3: a second FE or FI run right after a completed one (no rename failing
\* in either) corrects nothing and leaves the stored documents and the
\* media directory as they were; a target equal to the current filename is
\* never reported as corrected.
C3_SecondRunChangesNothing ==
  (/\ script \in {"FE", "FI"} /\ pass = 2 /\ pc = "done"
   /\ ~HasMark(log, "rename-error")) =>
    /\ total_corrected = 0
    /\ fs = fs0 /\ jsonFile = json0 /\ outFile = out0
    /\ \A i \in LogIndex : log[i].new = log[i].old => log[i].mark # "corrected"

\* C4: when an FE or FI run ends, every attachment with a file reference in
\* every well-formed record has been decided (whatever failed before it),
\* and every skip is counted in total_skipped.
C4_ErrorsDoNotAbort ==
  (script \in {"FE", "FI"} /\ pc = "done") =>
    /\ \A c \in 1..Len(data) : \A e \in 1..Len(Elements(data[c])) :
         (/\ Has(Elements(data[c])[e], "file")
          /\ ~(script = "FI" /\ RaisesKeyErrorFI(data[c])))
           => \E i \in LogIndex : log[i].rec = c /\ log[i].el = e
    /\ Cardinality({i \in LogIndex : log[i].mark \in SkipMarks}) = total_skipped

SpecTimestampMs(iso) ==
  IF iso = TimeOf(1) THEN "1672531200000" ELSE "1709181015000"

\* C6: in FI the target filename of an attachment is
\* {recordId}-{k}_{channelId}-{userId}_{timestampMs}{extension}, extension that
\* of its current filename and k the number of attachments with a file
\* reference in its record up to and including it; only an attachment with a
\* file reference is ever renamed.
C6_CanonicalName ==
  script = "FI" =>
    \A i \in LogIndex :
      log[i].el > 0 =>
        LET cave == json0.doc[log[i].rec]
            k    == Cardinality({j \in 1..log[i].el : Has(cave.elements[j], "file")})
        IN /\ Has(cave.elements[log[i].el], "file")
           /\ log[i].old = cave.elements[log[i].el].file
           /\ log[i].new = <<ToString(cave.id) \o "-" \o ToString(k) \o "_"
                               \o cave.channelId \o "-" \o cave.userId \o "_"
                               \o SpecTimestampMs(cave.time),
                             log[i].old[2]>>

\* two records, each with one file after a text element: both get index 1
C6_Witness ==
  /\ script = "FI" /\ pc = "done" /\ Len(log) = 2
  /\ log[1].mark = "corrected" /\ log[1].rec = 1
  /\ log[1].new = <<"5-1_c1-u1_1672531200000", ".jpg">>
  /\ log[2].mark = "corrected" /\ log[2].rec = 2 /\ log[2].el = 2
  /\ log[2].new = <<"42-1_c1-u1_1709181015000", ".jpg">>
  /\ DOMAIN fs = {<<"42-1_c1-u1_1709181015000", ".jpg">>}

\* a record of the input document lacks a field its script requires
LacksRequired(cave) ==
  \/ script = "FI" /\ RaisesKeyErrorFI(cave)
  \/ script = "CV" /\ LacksIdsCV(cave)

HasMalformedRecord ==
  json0.st = "ok" /\ \E c \in 1..Len(json0.doc) : LacksRequired(json0.doc[c])

NothingMutated ==
  /\ fs = fs0 /\ docWrites = 0
  /\ jsonFile = json0 /\ outFile = out0 /\ mapFile = map0
  /\ data \in {<<>>, json0.doc} /\ output_data = <<>>

\* C7, as claimed: with an invalid or missing input document, a missing media
\* directory or a record lacking a required field, the run changes nothing:
\* no file or directory, no record field, no document.
C7_AbortBeforeMutation ==
  (json0.st # "ok" \/ ~dir0 \/ HasMalformedRecord) =>
    NothingMutated /\ dirExists = dir0

\* C7, amended: a missing or invalid input document, or (FE, FI) a missing
\* media directory, stops the run before it loads or changes anything (CV
\* first creates a missing media directory and carries on).  A record lacking
\* a required field does not stop the run: that record alone is skipped, with
\* no attachment of it decided and no field of it changed, the run goes on to
\* the first attachment of every other record, and FI writes its document.
C7_AbortOrSkipRecord ==
  /\ (json0.st # "ok" \/ (script \in {"FE", "FI"} /\ ~dir0)) =>
       /\ NothingMutated /\ data = <<>> /\ log = <<>>
       /\ pc \in {"start", "aborted", "crashed", "killed"}
       /\ script \in {"FE", "FI"} => dirExists = dir0
  /\ (script = "CV" /\ (ci > 0 \/ pc = "aborted")) => dirExists
  /\ (json0.st = "ok" /\ (dir0 \/ script = "CV")) =>
       /\ pc \notin {"aborted", "crashed"}
       /\ \A i \in LogIndex :
            LacksRequired(json0.doc[log[i].src]) <=> log[i].mark = "malformed"
       /\ (script \in {"FE", "FI"} /\ pc = "done") =>
            /\ ci = Len(data) + 1
            /\ \A c \in 1..Len(data) :
                 IF LacksRequired(json0.doc[c])
                   THEN data[c] = json0.doc[c]
                   ELSE \A e \in 1..Len(Elements(data[c])) :
                          (/\ Has(Elements(data[c])[e], "file")
                           /\ \A j \in 1..(e - 1) : ~Has(Elements(data[c])[j], "file"))
                            => \E i \in LogIndex : log[i].rec = c /\ log[i].el = e
       /\ (script = "FI" /\ pc = "done" /\ Len(data) > 0) =>
            outFile = [st |-> "ok", doc |-> data]
       /\ (script = "CV" /\ pc = "done" /\ ~HasMark(log, "interrupted")) =>
            Len(output_data) =
              Cardinality({c \in 1..Len(data) : ~LacksRequired(data[c])})

\* FI: a well-formed record is renamed, the record after it lacks a key, and
\* the document is written all the same
C7_Witness ==
  /\ script = "FI" /\ pc = "done" /\ Len(log) = 2
  /\ log[1].mark = "corrected" /\ log[1].new # log[1].old
  /\ log[2].mark = "malformed"
  /\ fs # fs0 /\ outFile = [st |-> "ok", doc |-> data] /\ data # json0.doc

\* the media directory after the renames the trace reports, in order
RECURSIVE Replay(_, _)
Replay(files, lg) ==
  IF lg = <<>>
    THEN files
    ELSE LET e == Head(lg)
             moved == [n \in (DOMAIN files \ {e.old}) \cup {e.new} |->
                         IF n = e.new THEN files[e.old] ELSE files[n]]
         IN Replay(IF e.mark = "corrected" THEN moved ELSE files, Tail(lg))

\* C8: a run writes its document at most once, as its last step, after every
\* record has been gone through, so until then the stored documents are those
\* the run started on; the media directory always holds exactly the renames
\* performed so far, also after the run was stopped.
C8_RenamesBeforeSingleWrite ==
  /\ docWrites <= 1
  /\ docWrites = 1 => pc = "done"
  /\ docWrites = 0 => (jsonFile = json0 /\ outFile = out0 /\ mapFile = map0)
  /\ (script \in {"FE", "FI"} /\ docWrites = 1) => ci = Len(data) + 1
  /\ fs = Replay(fs0, log)

\* stopped after a rename and before the write
C8_Witness ==
  /\ script \in {"FE", "FI"} /\ pass = 1 /\ pc = "killed"
  /\ HasMark(log, "corrected") /\ fs # fs0
  /\ docWrites = 0 /\ jsonFile = json0 /\ outFile = out0
  /\ data # json0.doc

\* C9: after a KeyboardInterrupt at the prompt of CV nothing more is
\* processed: the record prompted for and the later ones get no rename and no
\* output entry; the run goes to its writes, and when it is done the mapping
\* file holds every mapping loaded or entered before the interrupt and the
\* output document every record converted before it.
C9_InterruptSaves ==
  (script = "CV" /\ HasMark(log, "interrupted")) =>
    /\ log[Len(log)].mark = "interrupted" /\ log[Len(log)].src = ci
    /\ pc \in {"save", "done", "killed"}
    /\ fs = Replay(fs0, log)
    /\ \A i \in LogIndex : log[i].el > 0 => log[i].src < ci
    /\ Len(output_data) = Cardinality({c \in 1..(ci - 1) : ~LacksIdsCV(data[c])})
    /\ \A u \in DOMAIN LoadMapping(map0) :
         u \in DOMAIN user_channel_map /\ user_channel_map[u] = LoadMapping(map0)[u]
    /\ \A i \in LogIndex :
         (log[i].mark = "prompt" /\ log[i].src < ci) =>
           data[log[i].src].contributor_number \in DOMAIN user_channel_map
    /\ data[ci].contributor_number \notin DOMAIN user_channel_map
    /\ pc = "done" =>
         /\ mapFile = [st |-> "ok", map |-> user_channel_map]
         /\ outFile = [st |-> "ok", doc |-> output_data]

\* one record converted with an entered mapping and a rename, then the
\* prompt for the next record's user is interrupted
C9_Witness ==
  /\ script = "CV" /\ pc = "done" /\ HasMark(log, "interrupted")
  /\ map0.st = "missing" /\ mapFile.st = "ok" /\ DOMAIN mapFile.map = {"u1"}
  /\ Len(outFile.doc) = 1 /\ Len(data) = 2 /\ fs # fs0

\* C10: CV prompts only for a userId that is not in the mapping, so never for
\* a loaded one and at most once for each; a loaded entry keeps its value;
\* every output record's channelId is the mapping's value for its userId.
C10_MappingOnlyGrows ==
  script = "CV" =>
    /\ \A i \in LogIndex :
         log[i].mark = "prompt" =>
           /\ data[log[i].src].contributor_number \notin DOMAIN LoadMapping(map0)
           /\ \A j \in 1..(i - 1) :
                log[j].mark = "prompt" =>
                  data[log[j].src].contributor_number
                    # data[log[i].src].contributor_number
    /\ ci > 0 =>
         \A u \in DOMAIN LoadMapping(map0) :
           u \in DOMAIN user_channel_map /\ user_channel_map[u] = LoadMapping(map0)[u]
    /\ \A o \in 1..Len(output_data) :
         /\ output_data[o].userId \in DOMAIN user_channel_map
         /\ output_data[o].channelId = user_channel_map[output_data[o].userId]

\* two records of one user that was not in the mapping: one prompt
C10_Witness ==
  /\ script = "CV" /\ pc = "done" /\ map0.st # "ok"
  /\ Len(output_data) = 2
  /\ output_data[1].userId = "u1" /\ output_data[2].userId = "u1"
  /\ Cardinality({i \in LogIndex : log[i].mark = "prompt"}) = 1
  /\ mapFile = [st |-> "ok", map |-> ("u1" :> "c2")]

====
